---- MODULE Spec2Model ----
(***************************************************************************)
(* Black-Scholes option pricing: the pricing engine (BlackScholesModel),   *)
(* the result record (PricingResult), the two validate-on-construct input  *)
(* types (Option, MarketData) and the command-line tool (main.cpp).        *)
(*                                                                         *)
(* Reals are fixed-point integers with six decimal digits (1.0 is ONE);    *)
(* every double operation of the source is the corresponding fixed-point   *)
(* operation rounded to the nearest representable value, so the model has  *)
(* the source's rounding behaviour at a resolution of 1e-6 instead of      *)
(* 2^-53.  All intermediate values stay inside 32-bit integers.  A double  *)
(* also has infinities and NaN: a magnitude that leaves the fixed-point     *)
(* range is Inf (overflow to infinity), and 0/0 is NaN.                     *)
(***************************************************************************)
EXTENDS Integers, Sequences, FiniteSets, TLC

VARIABLES
    option,      \* the Option object in scope, or None
    marketData,  \* the MarketData object in scope, or None
    results,     \* results[op][type]: what op returned for the option of that type, or None
    thrown,      \* the exception in flight or caught, or None
    pc,          \* position of the caller: library scope or a line of main()
    argv,        \* argv[1..argc-1] of the command-line tool
    i,           \* parseArguments' loop index, as an index into argv
    args,        \* the CliArguments being filled
    exitCode,    \* main's return value, or None while running
    stdout,      \* what was written to std::cout
    stderr,      \* what was written to std::cerr
    invoked,     \* whether main() has called the pricing engine
    cdfArg,      \* argument of a direct normalCDF evaluation
    cdfVal       \* its value, or None

vars == <<option, marketData, results, thrown, pc, argv, i, args, exitCode,
          stdout, stderr, invoked, cdfArg, cdfVal>>

cliVars == <<argv, i, args, exitCode, stdout, stderr, invoked>>
cdfVars == <<cdfArg, cdfVal>>

\* absence of an object or value; a value that may be absent is wrapped in Some
None == [none |-> TRUE]
Some(v) == [some |-> v]

(***************************************************************************)
(* Fixed-point arithmetic                                                  *)
(***************************************************************************)
SCALE == 1000 * 1000
ONE == SCALE
HALF == SCALE \div 2
LimbBase == 10 * 100

Abs(a) == IF a < 0 THEN -a ELSE a
Sgn(a) == IF a < 0 THEN -1 ELSE 1
Max(a, b) == IF a < b THEN b ELSE a

\* n/d as a fixed-point value (n, d small integers, d > 0)
Fx(n, d) == Sgn(n) * ((Abs(n) * SCALE) \div d)

\* the largest finite magnitude; a result beyond it has overflowed to infinity
Inf == 200 * SCALE

\* the result of 0.0 / 0.0; it is unordered, so whoever may receive it tests for it first
NaN == -2147483647

\* a * b, rounded to nearest; the 64-bit product is formed limb by limb
Mul(a, b) ==
    LET u == Abs(a)
        v == Abs(b)
        uh == u \div LimbBase
        ul == u % LimbBase
        vh == v \div LimbBase
        vl == v % LimbBase
        mid == uh * vl + ul * vh
        low == ul * vl + (SCALE \div 2)
    IN  IF uh # 0 /\ vh > Inf \div uh THEN Sgn(a) * Sgn(b) * Inf
        ELSE LET m == uh * vh + ((mid + (low \div LimbBase)) \div LimbBase)
             IN  Sgn(a) * Sgn(b) * (IF m > Inf THEN Inf ELSE m)

\* the remaining n decimal digits of r / b, then round to nearest
RECURSIVE DivDigits(_, _, _, _)
DivDigits(r, b, n, acc) ==
    IF n = 0 THEN acc + (IF 2 * r >= b THEN 1 ELSE 0)
    ELSE DivDigits((r * 10) % b, b, n - 1, acc * 10 + ((r * 10) \div b))

\* a / b, rounded to nearest, by long division; x / 0.0 is an infinity and 0.0 / 0.0 is NaN
Div(a, b) ==
    LET u == Abs(a)
        v == Abs(b)
    IN  IF v = 0 THEN (IF u = 0 THEN NaN ELSE Sgn(a) * Inf)
        ELSE IF u \div v >= Inf \div SCALE THEN Sgn(a) * Sgn(b) * Inf
        ELSE Sgn(a) * Sgn(b) * DivDigits(u % v, v, 6, u \div v)

\* integer quotient rounded toward zero
Quot(a, k) == Sgn(a) * (Abs(a) \div k)

\* e^f for |f| < 1: the Taylor series, term k = term (k-1) * f / k
RECURSIVE ExpSeries(_, _, _, _)
ExpSeries(f, k, term, acc) ==
    IF k > 12 THEN acc
    ELSE LET t == Quot(Mul(term, f), k)
         IN  ExpSeries(f, k + 1, t, acc + t)

EPos == <<2718282, 7389056, 20085537, 54598150, 148413159, 403428793, 1096633158>>
ENeg == <<367879, 135335, 49787, 18316, 6738, 2479, 912, 335, 123, 45, 17, 6, 2, 1>>

\* std::exp: e^n from a table for the integer part, the series for the rest
Exp(a) ==
    IF a >= 0
    THEN LET n == a \div SCALE
             f == a % SCALE
         IN  Mul(IF n = 0 THEN ONE ELSE EPos[n], ExpSeries(f, 1, ONE, ONE))
    ELSE LET n == (-a) \div SCALE
             f == (-a) % SCALE
         IN  IF n > Len(ENeg) THEN 0
             ELSE Mul(IF n = 0 THEN ONE ELSE ENeg[n], ExpSeries(-f, 1, ONE, ONE))

\* sum of z^k / k over odd k from 3 on
RECURSIVE LnSeries(_, _, _, _)
LnSeries(z2, k, pw, acc) ==
    IF k > 21 THEN acc
    ELSE LET p2 == Mul(pw, z2)
         IN  LnSeries(z2, k + 2, p2, acc + Quot(p2, k))

\* std::log for a > 0: ln a = 2 atanh((a - 1) / (a + 1))
Ln(a) ==
    LET z == Div(a - ONE, a + ONE)
    IN  2 * LnSeries(Mul(z, z), 3, z, z)

RECURSIVE SqrtIter(_, _, _)
SqrtIter(a, g, n) ==
    IF n = 0 THEN g ELSE SqrtIter(a, (g + Div(a, g)) \div 2, n - 1)

\* std::sqrt for a >= 0: Newton's iteration from (a + 1) / 2
Sqrt(a) == IF a <= 0 THEN 0 ELSE SqrtIter(a, (a + ONE) \div 2, 12)

(***************************************************************************)
(* PricingResult, Option, MarketData                                       *)
(***************************************************************************)
OptionTypes == {"Call", "Put"}

\* struct PricingResult with its default member initialisers
PricingResult == [price |-> 0, delta |-> 0, gamma |-> 0, vega |-> 0, theta |-> 0, rho |-> 0]

\* hasGreeks with delta left out of the disjunction
hasGreeks_withoutDelta(res) ==
    res.gamma # 0 \/ res.vega # 0 \/ res.theta # 0 \/ res.rho # 0

hasGreeks(res) ==
    res.delta # 0 \/ res.gamma # 0 \/ res.vega # 0 \/ res.theta # 0 \/ res.rho # 0

\* Option's constructor letting a zero strike through
OptionInvalid_zeroStrike(strike, timeToExpiration) ==
    IF strike < 0 THEN "strike"
    ELSE IF timeToExpiration < 0 THEN "timeToExpiration"
    ELSE "valid"

\* Option's constructor: the argument it throws std::invalid_argument for, or "valid"
OptionInvalid(strike, timeToExpiration) ==
    IF strike <= 0 THEN "strike"
    ELSE IF timeToExpiration < 0 THEN "timeToExpiration"
    ELSE "valid"

\* MarketData's constructor: the argument it throws std::invalid_argument for, or "valid"
MarketDataInvalid(spot, volatility) ==
    IF spot <= 0 THEN "spot"
    ELSE IF volatility < 0 THEN "volatility"
    ELSE "valid"

Option(type, strike, timeToExpiration) ==
    [type |-> type, strike |-> strike, timeToExpiration |-> timeToExpiration]

MarketData(spot, riskFreeRate, volatility) ==
    [spot |-> spot, riskFreeRate |-> riskFreeRate, volatility |-> volatility]

isCall(opt) == opt.type = "Call"

(***************************************************************************)
(* BlackScholesModel: the private helpers                                  *)
(***************************************************************************)
a1 == 254830
a2 == -284497
a3 == 1421414
a4 == -1453152
a5 == 1061405
p == 327591
inv_sqrt_2pi == 398942

\* for an infinite x: t = 1 / (1 + p * x) = 0 and exp(-x * x) = 0, so y = 1
normalCDF(v) ==
    IF v = NaN THEN NaN
    ELSE IF Abs(v) >= Inf THEN (IF v < 0 THEN 0 ELSE ONE)
    ELSE LET sign == IF v < 0 THEN -1 ELSE 1
             ax == IF v < 0 THEN -v ELSE v
             t == Div(ONE, ONE + Mul(p, ax))
             poly == Mul(Mul(Mul(Mul(a5, t) + a4, t) + a3, t) + a2, t) + a1
             yy == ONE - Mul(Mul(poly, t), Exp(-Mul(ax, ax)))
         IN  Mul(HALF, ONE + sign * yy)

normalPDF(v) ==
    IF v = NaN THEN NaN
    ELSE IF Abs(v) >= Inf THEN 0
    ELSE Mul(inv_sqrt_2pi, Exp(Mul(Mul(-HALF, v), v)))

calculateD1Guard(S, K, sigma, T) == S <= 0 \/ K <= 0 \/ T <= 0 \/ sigma <= 0

\* the divisor of d1, and the argument of its logarithm
calculateD1Denominator(sigma, T) == Mul(sigma, Sqrt(T))
calculateD1LogArgument(S, K) == Div(S, K)

calculateD1(S, K, r, sigma, T) ==
    IF calculateD1Guard(S, K, sigma, T) THEN 0
    ELSE LET numerator == Ln(calculateD1LogArgument(S, K))
                          + Mul(r + Mul(Mul(HALF, sigma), sigma), T)
             denominator == calculateD1Denominator(sigma, T)
         IN  Div(numerator, denominator)

calculateD2(d1, sigma, T) ==
    IF d1 = NaN THEN NaN
    ELSE IF Abs(d1) >= Inf THEN d1
    ELSE d1 - Mul(sigma, Sqrt(T))

calculateCallPrice(S, K, r, T, d1, d2) ==
    LET N_d1 == normalCDF(d1)
        N_d2 == normalCDF(d2)
        discountFactor == Exp(Mul(-r, T))
    IN  IF d1 = NaN THEN NaN
        ELSE Mul(S, N_d1) - Mul(Mul(K, discountFactor), N_d2)

calculatePutPrice(S, K, r, T, d1, d2) ==
    LET N_minus_d1 == normalCDF(-d1)
        N_minus_d2 == normalCDF(-d2)
        discountFactor == Exp(Mul(-r, T))
    IN  IF d1 = NaN THEN NaN
        ELSE Mul(Mul(K, discountFactor), N_minus_d2) - Mul(S, N_minus_d1)

calculateDelta(call, d1) ==
    LET N_d1 == normalCDF(d1)
    IN  IF d1 = NaN THEN NaN
        ELSE IF call THEN N_d1 ELSE N_d1 - ONE

calculateGammaGuard(S, sigma, T) == S <= 0 \/ sigma <= 0 \/ T <= 0

calculateGamma(S, sigma, T, d1) ==
    IF calculateGammaGuard(S, sigma, T) THEN 0
    ELSE IF d1 = NaN THEN NaN
    ELSE Div(normalPDF(d1), Mul(Mul(S, sigma), Sqrt(T)))

calculateVegaGuard(S, T) == S <= 0 \/ T <= 0

calculateVega(S, T, d1) ==
    IF calculateVegaGuard(S, T) THEN 0
    ELSE IF d1 = NaN THEN NaN
    ELSE Mul(Mul(S, normalPDF(d1)), Sqrt(T))

calculateTheta(call, S, K, r, sigma, T, d1, d2) ==
    IF T <= 0 THEN 0
    ELSE IF d1 = NaN THEN NaN
    ELSE LET pdf_d1 == normalPDF(d1)
             sqrt_T == Sqrt(T)
             discountFactor == Exp(Mul(-r, T))
             theta == Div(Mul(Mul(-S, pdf_d1), sigma), 2 * sqrt_T)
         IN  IF call
             THEN theta - Mul(Mul(Mul(r, K), discountFactor), normalCDF(d2))
             ELSE theta + Mul(Mul(Mul(r, K), discountFactor), normalCDF(-d2))

calculateRho(call, K, r, T, d2) ==
    IF T <= 0 THEN 0
    ELSE IF d2 = NaN THEN NaN
    ELSE LET discountFactor == Exp(Mul(-r, T))
         IN  IF call
             THEN Mul(Mul(Mul(K, T), discountFactor), normalCDF(d2))
             ELSE Mul(Mul(Mul(-K, T), discountFactor), normalCDF(-d2))

\* a private helper's invocation, and whether its degenerate-input guard returned 0.0
Call(fn, guard) == [fn |-> fn, guard |-> guard]

\* what a public operation did: the record it returns and the helpers it invoked
Returned(ret, calls) == [ret |-> ret, calls |-> calls]

(***************************************************************************)
(* BlackScholesModel::price                                                *)
(***************************************************************************)
\* the branch taken when T == 0.0
priceAtExpiration(opt, md) ==
    LET S == md.spot
        K == opt.strike
    IN  Returned([PricingResult EXCEPT
                    !.price = IF isCall(opt) THEN Max(S - K, 0) ELSE Max(K - S, 0)],
                 {})

\* the sigma == 0.0 branch with the strike left undiscounted
priceZeroVolatility_undiscounted(opt, md) ==
    LET S == md.spot
        K == opt.strike
    IN  Returned([PricingResult EXCEPT
                    !.price = IF isCall(opt) THEN Max(S - K, 0) ELSE Max(K - S, 0)],
                 {})

\* the branch taken when sigma == 0.0
priceZeroVolatility(opt, md) ==
    LET S == md.spot
        K == opt.strike
        discountFactor == Exp(Mul(-md.riskFreeRate, opt.timeToExpiration))
    IN  Returned([PricingResult EXCEPT
                    !.price = IF isCall(opt)
                              THEN Max(S - Mul(K, discountFactor), 0)
                              ELSE Max(Mul(K, discountFactor) - S, 0)],
                 {})

\* the closed-form price, with delta filled in as priceWithGreeks does
priceGeneral_withDelta(opt, md) ==
    LET S == md.spot
        K == opt.strike
        r == md.riskFreeRate
        sigma == md.volatility
        T == opt.timeToExpiration
        d1 == calculateD1(S, K, r, sigma, T)
        d2 == calculateD2(d1, sigma, T)
    IN  Returned([PricingResult EXCEPT
                    !.price = IF isCall(opt)
                              THEN calculateCallPrice(S, K, r, T, d1, d2)
                              ELSE calculatePutPrice(S, K, r, T, d1, d2),
                    !.delta = calculateDelta(isCall(opt), d1)],
                 {Call("calculateD1", calculateD1Guard(S, K, sigma, T)),
                  Call("calculateD2", FALSE),
                  Call(IF isCall(opt) THEN "calculateCallPrice" ELSE "calculatePutPrice", FALSE)})

\* the closed-form price from d1 and d2
priceGeneral(opt, md) ==
    LET S == md.spot
        K == opt.strike
        r == md.riskFreeRate
        sigma == md.volatility
        T == opt.timeToExpiration
        d1 == calculateD1(S, K, r, sigma, T)
        d2 == calculateD2(d1, sigma, T)
    IN  Returned([PricingResult EXCEPT
                    !.price = IF isCall(opt)
                              THEN calculateCallPrice(S, K, r, T, d1, d2)
                              ELSE calculatePutPrice(S, K, r, T, d1, d2)],
                 {Call("calculateD1", calculateD1Guard(S, K, sigma, T)),
                  Call("calculateD2", FALSE),
                  Call(IF isCall(opt) THEN "calculateCallPrice" ELSE "calculatePutPrice", FALSE)})

\* price without its T == 0.0 branch
price_noExpirationBranch(opt, md) ==
    IF md.volatility = 0 THEN priceZeroVolatility(opt, md)
    ELSE priceGeneral(opt, md)

price(opt, md) ==
    IF opt.timeToExpiration = 0 THEN priceAtExpiration(opt, md)
    ELSE IF md.volatility = 0 THEN priceZeroVolatility(opt, md)
    ELSE priceGeneral(opt, md)

(***************************************************************************)
(* BlackScholesModel::priceWithGreeks                                      *)
(***************************************************************************)
\* the T == 0.0 branch with an at-the-money option counted as in the money
greeksAtExpiration_inclusive(opt, md) ==
    LET S == md.spot
        K == opt.strike
    IN  Returned(IF isCall(opt)
                 THEN [PricingResult EXCEPT !.price = Max(S - K, 0),
                                            !.delta = IF S >= K THEN ONE ELSE 0]
                 ELSE [PricingResult EXCEPT !.price = Max(K - S, 0),
                                            !.delta = IF S <= K THEN -ONE ELSE 0],
                 {})

greeksAtExpiration(opt, md) ==
    LET S == md.spot
        K == opt.strike
    IN  Returned(IF isCall(opt)
                 THEN [PricingResult EXCEPT !.price = Max(S - K, 0),
                                            !.delta = IF S > K THEN ONE ELSE 0]
                 ELSE [PricingResult EXCEPT !.price = Max(K - S, 0),
                                            !.delta = IF S < K THEN -ONE ELSE 0],
                 {})

\* the sigma == 0.0 branch with delta decided by the undiscounted strike
greeksZeroVolatility_undiscountedDelta(opt, md) ==
    LET S == md.spot
        K == opt.strike
        discountFactor == Exp(Mul(-md.riskFreeRate, opt.timeToExpiration))
    IN  Returned(IF isCall(opt)
                 THEN [PricingResult EXCEPT
                         !.price = Max(S - Mul(K, discountFactor), 0),
                         !.delta = IF S > K THEN ONE ELSE 0]
                 ELSE [PricingResult EXCEPT
                         !.price = Max(Mul(K, discountFactor) - S, 0),
                         !.delta = IF S < K THEN -ONE ELSE 0],
                 {})

greeksZeroVolatility(opt, md) ==
    LET S == md.spot
        K == opt.strike
        discountFactor == Exp(Mul(-md.riskFreeRate, opt.timeToExpiration))
    IN  Returned(IF isCall(opt)
                 THEN [PricingResult EXCEPT
                         !.price = Max(S - Mul(K, discountFactor), 0),
                         !.delta = IF S > Mul(K, discountFactor) THEN ONE ELSE 0]
                 ELSE [PricingResult EXCEPT
                         !.price = Max(Mul(K, discountFactor) - S, 0),
                         !.delta = IF S < Mul(K, discountFactor) THEN -ONE ELSE 0],
                 {})

greeksGeneral(opt, md) ==
    LET S == md.spot
        K == opt.strike
        r == md.riskFreeRate
        sigma == md.volatility
        T == opt.timeToExpiration
        d1 == calculateD1(S, K, r, sigma, T)
        d2 == calculateD2(d1, sigma, T)
    IN  Returned([price |-> IF isCall(opt)
                            THEN calculateCallPrice(S, K, r, T, d1, d2)
                            ELSE calculatePutPrice(S, K, r, T, d1, d2),
                  delta |-> calculateDelta(isCall(opt), d1),
                  gamma |-> calculateGamma(S, sigma, T, d1),
                  vega |-> calculateVega(S, T, d1),
                  theta |-> calculateTheta(isCall(opt), S, K, r, sigma, T, d1, d2),
                  rho |-> calculateRho(isCall(opt), K, r, T, d2)],
                 {Call("calculateD1", calculateD1Guard(S, K, sigma, T)),
                  Call("calculateD2", FALSE),
                  Call(IF isCall(opt) THEN "calculateCallPrice" ELSE "calculatePutPrice", FALSE),
                  Call("calculateDelta", FALSE),
                  Call("calculateGamma", calculateGammaGuard(S, sigma, T)),
                  Call("calculateVega", calculateVegaGuard(S, T)),
                  Call("calculateTheta", T <= 0),
                  Call("calculateRho", T <= 0)})

priceWithGreeks(opt, md) ==
    IF opt.timeToExpiration = 0 THEN greeksAtExpiration(opt, md)
    ELSE IF md.volatility = 0 THEN greeksZeroVolatility(opt, md)
    ELSE greeksGeneral(opt, md)

(***************************************************************************)
(* Input domains                                                           *)
(***************************************************************************)
SpotSteps == 2
TimeSteps == 2

SpotSet == {Fx(-100, 1), 0} \cup {Fx(90 + 10 * n, 1) : n \in 0..SpotSteps}
StrikeSet == {Fx(-100, 1), 0, Fx(100, 1), Fx(105, 1)}
TimeSet == {Fx(n, 2) : n \in -1..TimeSteps} \cup {Fx(1, 10)}
RateSet == {Fx(-2, 100), 0, Fx(5, 100)}
\* the volatilities include the smallest positive value there is
VolSet == {Fx(-2, 10), 0, Fx(1, SCALE), Fx(5, 100), Fx(2, 10)}

Ops == {"price", "priceWithGreeks"}

NoResults == [op \in Ops |-> [type \in OptionTypes |-> None]]

\* struct CliArguments with its default member initialisers
CliArguments ==
    [model |-> "black_scholes", optionType |-> "Call", spot |-> 0, strike |-> 0,
     rate |-> 0, vol |-> 0, maturity |-> 0, help |-> FALSE]

\* std::invalid_argument thrown by `from` for the arguments or text `given`
InvalidArgument(from, reason, given) ==
    [what |-> "invalid_argument", from |-> from, reason |-> reason, given |-> given]

(***************************************************************************)
(* The library used directly (as the unit tests do): a scope that builds   *)
(* Option and MarketData objects and prices them.  An exception leaving a  *)
(* constructor unwinds the scope: its objects and results are gone.  The   *)
(* operations are pure, so each is applied once to each pair of objects.   *)
(***************************************************************************)
CliIdle ==
    /\ argv = <<>>
    /\ i = 1
    /\ args = CliArguments
    /\ exitCode = None
    /\ stdout = <<>>
    /\ stderr = <<>>
    /\ invoked = FALSE

CdfIdle == cdfArg = 0 /\ cdfVal = None

Init ==
    /\ pc = "lib"
    /\ option = None
    /\ marketData = None
    /\ results = NoResults
    /\ thrown = None
    /\ CliIdle
    /\ CdfIdle

NewOption(type, strike, timeToExpiration) ==
    /\ pc = "lib"
    /\ thrown = None
    /\ IF OptionInvalid(strike, timeToExpiration) # "valid"
       THEN /\ thrown' = InvalidArgument("Option", OptionInvalid(strike, timeToExpiration),
                                          Option(type, strike, timeToExpiration))
            /\ option' = None
            /\ marketData' = None
            /\ results' = NoResults
       ELSE /\ option' = Option(type, strike, timeToExpiration)
            /\ results' = IF /\ option # None
                             /\ option.strike = strike
                             /\ option.timeToExpiration = timeToExpiration
                          THEN results ELSE NoResults
            /\ UNCHANGED <<thrown, marketData>>
    /\ UNCHANGED <<pc, cliVars, cdfVars>>

NewMarketData(spot, riskFreeRate, volatility) ==
    /\ pc = "lib"
    /\ thrown = None
    /\ IF MarketDataInvalid(spot, volatility) # "valid"
       THEN /\ thrown' = InvalidArgument("MarketData", MarketDataInvalid(spot, volatility),
                                          MarketData(spot, riskFreeRate, volatility))
            /\ option' = None
            /\ marketData' = None
            /\ results' = NoResults
       ELSE /\ marketData' = MarketData(spot, riskFreeRate, volatility)
            /\ results' = IF marketData = MarketData(spot, riskFreeRate, volatility)
                          THEN results ELSE NoResults
            /\ UNCHANGED <<thrown, option>>
    /\ UNCHANGED <<pc, cliVars, cdfVars>>

Price ==
    /\ pc = "lib"
    /\ option # None
    /\ marketData # None
    /\ results["price"][option.type] = None
    /\ results' = [results EXCEPT !["price"][option.type] = price(option, marketData)]
    /\ UNCHANGED <<option, marketData, thrown, pc, cliVars, cdfVars>>

PriceWithGreeks ==
    /\ pc = "lib"
    /\ option # None
    /\ marketData # None
    /\ results["priceWithGreeks"][option.type] = None
    /\ results' = [results EXCEPT
                     !["priceWithGreeks"][option.type] = priceWithGreeks(option, marketData)]
    /\ UNCHANGED <<option, marketData, thrown, pc, cliVars, cdfVars>>

Next ==
    \/ \E type \in OptionTypes, strike \in StrikeSet, timeToExpiration \in TimeSet :
          NewOption(type, strike, timeToExpiration)
    \/ \E spot \in SpotSet, riskFreeRate \in RateSet, volatility \in VolSet :
          NewMarketData(spot, riskFreeRate, volatility)
    \/ Price
    \/ PriceWithGreeks

Spec == Init /\ [][Next]_vars

(***************************************************************************)
(* The command-line tool                                                   *)
(***************************************************************************)
MaxGroups == 3

\* the pieces command lines are built from: a flag alone or with a value
ArgGroups ==
    {<<"--help">>, <<"-h">>, <<"--foo">>, <<"--spot">>,
     <<"--spot", "100">>, <<"--spot", "0">>, <<"--spot", "abc">>, <<"--spot", "100abc">>,
     <<"--strike", "105">>,
     <<"--vol", "0.2">>, <<"--vol", "-0.2">>,
     <<"--maturity", "0.5">>, <<"--maturity", "-1">>,
     <<"--rate", "0.05">>,
     <<"--type", "put">>, <<"--type", "both">>,
     <<"--model", "heston">>}

RECURSIVE CommandLines(_)
CommandLines(n) ==
    IF n = 0 THEN {<<>>}
    ELSE LET shorter == CommandLines(n - 1)
         IN  shorter \cup {line \o g : line \in shorter, g \in ArgGroups}

\* std::stod on the texts that occur: the number the text starts with, or
\* None where it starts with none and std::invalid_argument is thrown
stod(text) ==
    CASE text = "100" -> Some(Fx(100, 1))
      [] text = "100abc" -> Some(Fx(100, 1))
      [] text = "105" -> Some(Fx(105, 1))
      [] text = "0" -> Some(0)
      [] text = "0.2" -> Some(Fx(2, 10))
      [] text = "-0.2" -> Some(Fx(-2, 10))
      [] text = "0.5" -> Some(Fx(1, 2))
      [] text = "-1" -> Some(Fx(-1, 1))
      [] text = "0.05" -> Some(Fx(5, 100))
      [] OTHER -> None

\* parseDouble: the value, or None where it throws std::invalid_argument
parseDouble(arg) == stod(arg)

\* parseOptionType: the type, or None where it throws std::invalid_argument
parseOptionType(typeStr) ==
    IF typeStr = "call" THEN Some("Call")
    ELSE IF typeStr = "put" THEN Some("Put")
    ELSE None

\* validateArguments without the check of the model name
validateArguments_anyModel(a) ==
    IF a.spot <= 0 THEN "spot"
    ELSE IF a.strike <= 0 THEN "strike"
    ELSE IF a.vol < 0 THEN "vol"
    ELSE IF a.maturity < 0 THEN "maturity"
    ELSE "valid"

\* validateArguments: the check that throws std::invalid_argument, or "valid"
validateArguments(a) ==
    IF a.model # "black_scholes" THEN "model"
    ELSE IF a.spot <= 0 THEN "spot"
    ELSE IF a.strike <= 0 THEN "strike"
    ELSE IF a.vol < 0 THEN "vol"
    ELSE IF a.maturity < 0 THEN "maturity"
    ELSE "valid"

\* the exception leaves the try block: its locals are destroyed
Throw(from, reason, given) ==
    /\ thrown' = InvalidArgument(from, reason, given)
    /\ pc' = "catch"
    /\ option' = None
    /\ marketData' = None
    /\ results' = NoResults

NumericFlags == {"--spot", "--strike", "--rate", "--vol", "--maturity"}

\* the CliArguments member a numeric flag assigns
Member(flag) ==
    CASE flag = "--spot" -> "spot"
      [] flag = "--strike" -> "strike"
      [] flag = "--rate" -> "rate"
      [] flag = "--vol" -> "vol"
      [] flag = "--maturity" -> "maturity"

InitCli ==
    /\ pc = "parse"
    /\ argv \in CommandLines(MaxGroups)
    /\ i = 1
    /\ args = CliArguments
    /\ exitCode = None
    /\ stdout = <<>>
    /\ stderr = <<>>
    /\ invoked = FALSE
    /\ option = None
    /\ marketData = None
    /\ results = NoResults
    /\ thrown = None
    /\ CdfIdle

\* the --help branch without its return: the loop goes on
ParseHelp_noReturn ==
    /\ args' = [args EXCEPT !.help = TRUE]
    /\ i' = i + 1
    /\ UNCHANGED <<pc, thrown, option, marketData, results>>

\* the --help branch: set the flag and return at once
ParseHelp ==
    /\ args' = [args EXCEPT !.help = TRUE]
    /\ pc' = "parsed"
    /\ UNCHANGED <<i, thrown, option, marketData, results>>

\* one iteration of parseArguments' loop
ParseArgument ==
    /\ pc = "parse"
    /\ i <= Len(argv)
    /\ LET arg == argv[i]
           hasValue == i + 1 <= Len(argv)
       IN  IF arg = "--help" \/ arg = "-h"
           THEN ParseHelp
           ELSE IF arg = "--model" /\ hasValue
           THEN /\ args' = [args EXCEPT !.model = argv[i + 1]]
                /\ i' = i + 2
                /\ UNCHANGED <<pc, thrown, option, marketData, results>>
           ELSE IF arg = "--type" /\ hasValue
           THEN IF parseOptionType(argv[i + 1]) = None
                THEN /\ Throw("parseOptionType", "type", argv[i + 1])
                     /\ UNCHANGED <<i, args>>
                ELSE /\ args' = [args EXCEPT !.optionType = parseOptionType(argv[i + 1]).some]
                     /\ i' = i + 2
                     /\ UNCHANGED <<pc, thrown, option, marketData, results>>
           ELSE IF arg \in NumericFlags /\ hasValue
           THEN IF parseDouble(argv[i + 1]) = None
                THEN /\ Throw("parseDouble", arg, argv[i + 1])
                     /\ UNCHANGED <<i, args>>
                ELSE /\ args' = [args EXCEPT ![Member(arg)] = parseDouble(argv[i + 1]).some]
                     /\ i' = i + 2
                     /\ UNCHANGED <<pc, thrown, option, marketData, results>>
           ELSE /\ Throw("parseArguments", "unknown", arg)
                /\ UNCHANGED <<i, args>>
    /\ UNCHANGED <<argv, exitCode, stdout, stderr, invoked, cdfVars>>

\* the loop ends: parseArguments returns args
ParseReturn ==
    /\ pc = "parse"
    /\ i > Len(argv)
    /\ pc' = "parsed"
    /\ UNCHANGED <<option, marketData, results, thrown, cliVars, cdfVars>>

\* main: if (args.help) { printUsage; return 0; }
MainHelp ==
    /\ pc = "parsed"
    /\ args.help
    /\ stderr' = Append(stderr, "usage")
    /\ exitCode' = Some(0)
    /\ pc' = "exit"
    /\ UNCHANGED <<option, marketData, results, thrown, argv, i, args, stdout,
                   invoked, cdfVars>>

MainValidate ==
    /\ pc = "parsed"
    /\ ~args.help
    /\ IF validateArguments(args) # "valid"
       THEN Throw("validateArguments", validateArguments(args), args)
       ELSE /\ pc' = "newOption"
            /\ UNCHANGED <<thrown, option, marketData, results>>
    /\ UNCHANGED <<cliVars, cdfVars>>

MainNewOption ==
    /\ pc = "newOption"
    /\ IF OptionInvalid(args.strike, args.maturity) # "valid"
       THEN Throw("Option", OptionInvalid(args.strike, args.maturity),
                  Option(args.optionType, args.strike, args.maturity))
       ELSE /\ option' = Option(args.optionType, args.strike, args.maturity)
            /\ pc' = "newMarketData"
            /\ UNCHANGED <<thrown, marketData, results>>
    /\ UNCHANGED <<cliVars, cdfVars>>

MainNewMarketData ==
    /\ pc = "newMarketData"
    /\ IF MarketDataInvalid(args.spot, args.vol) # "valid"
       THEN Throw("MarketData", MarketDataInvalid(args.spot, args.vol),
                  MarketData(args.spot, args.rate, args.vol))
       ELSE /\ marketData' = MarketData(args.spot, args.rate, args.vol)
            /\ pc' = "price"
            /\ UNCHANGED <<thrown, option, results>>
    /\ UNCHANGED <<cliVars, cdfVars>>

MainPrice ==
    /\ pc = "price"
    /\ results' = [results EXCEPT !["price"][option.type] = price(option, marketData)]
    /\ invoked' = TRUE
    /\ pc' = "print"
    /\ UNCHANGED <<option, marketData, thrown, argv, i, args, exitCode, stdout,
                   stderr, cdfVars>>

\* printResult, then return 0
MainPrint ==
    /\ pc = "print"
    /\ stdout' = Append(stdout, [report |-> args,
                                 price |-> results["price"][option.type].ret.price])
    /\ exitCode' = Some(0)
    /\ pc' = "exit"
    /\ UNCHANGED <<option, marketData, results, thrown, argv, i, args, stderr,
                   invoked, cdfVars>>

\* the catch block: the message, the usage text, return 1
MainCatch ==
    /\ pc = "catch"
    /\ stderr' = stderr \o <<[error |-> thrown], "usage">>
    /\ exitCode' = Some(1)
    /\ pc' = "exit"
    /\ UNCHANGED <<option, marketData, results, thrown, argv, i, args, stdout,
                   invoked, cdfVars>>

NextCli ==
    \/ ParseArgument
    \/ ParseReturn
    \/ MainHelp
    \/ MainValidate
    \/ MainNewOption
    \/ MainNewMarketData
    \/ MainPrice
    \/ MainPrint
    \/ MainCatch

SpecCli == InitCli /\ [][NextCli]_vars

(***************************************************************************)
(* normalCDF on its own                                                    *)
(***************************************************************************)
CdfSteps == 60

CdfGrid == {Fx(n, 20) : n \in -CdfSteps..CdfSteps}

InitCdf ==
    /\ pc = "cdf"
    /\ cdfArg \in CdfGrid
    /\ cdfVal = None
    /\ option = None
    /\ marketData = None
    /\ results = NoResults
    /\ thrown = None
    /\ CliIdle

EvalNormalCDF ==
    /\ pc = "cdf"
    /\ cdfVal = None
    /\ cdfVal' = Some(normalCDF(cdfArg))
    /\ UNCHANGED <<option, marketData, results, thrown, pc, cliVars, cdfArg>>

NextCdf == EvalNormalCDF

SpecCdf == InitCdf /\ [][NextCdf]_vars

(***************************************************************************)
(* Properties                                                              *)
(***************************************************************************)
\* the inputs of the results held: results exist only beside both objects
S_ == marketData.spot
K_ == option.strike
r_ == marketData.riskFreeRate
sigma_ == marketData.volatility
T_ == option.timeToExpiration
Discount == Exp(Mul(-r_, T_))

Held == {ot \in Ops \X OptionTypes : results[ot[1]][ot[2]] # None}
Ret(ot) == results[ot[1]][ot[2]].ret

\* C1: at expiration (timeToExpiration == 0) price and priceWithGreeks return the
\* intrinsic value, max(spot - strike, 0) for a call and max(strike - spot, 0)
\* for a put, whatever the rate and the volatility (zero included): undiscounted.
AtExpirationIntrinsic ==
    \A ot \in Held :
        T_ = 0 =>
            Ret(ot).price = IF ot[2] = "Call" THEN Max(S_ - K_, 0) ELSE Max(K_ - S_, 0)

\* a call priced at expiration with zero volatility and a non-zero rate, in the money
AtExpirationWitness ==
    /\ results["price"]["Call"] # None
    /\ results["priceWithGreeks"]["Put"] # None
    /\ T_ = 0
    /\ sigma_ = 0
    /\ r_ > 0
    /\ results["price"]["Call"].ret.price = S_ - K_
    /\ S_ > K_

\* C2: with timeToExpiration > 0 and volatility == 0 the price is the discounted
\* intrinsic value, max(spot - strike*discount, 0) for a call and
\* max(strike*discount - spot, 0) for a put, discount = exp(-rate*time), and no
\* helper of the general formula (calculateD1, calculateD2, ...) is invoked.
ZeroVolatilityDiscounted ==
    \A ot \in Held :
        (T_ > 0 /\ sigma_ = 0) =>
            /\ Ret(ot).price = IF ot[2] = "Call"
                               THEN Max(S_ - Mul(K_, Discount), 0)
                               ELSE Max(Mul(K_, Discount) - S_, 0)
            /\ results[ot[1]][ot[2]].calls = {}

\* a call below its strike but above its discounted strike: worth spot - strike*discount
ZeroVolatilityWitness ==
    /\ results["price"]["Call"] # None
    /\ T_ > 0
    /\ sigma_ = 0
    /\ S_ < K_
    /\ Discount < ONE
    /\ results["price"]["Call"].ret.price = S_ - Mul(K_, Discount)
    /\ results["price"]["Call"].ret.price > 0

ParityTolerance == Fx(1, 100)

\* C3: put-call parity: for time > 0, a call and a put priced with the same
\* parameters satisfy callPrice - putPrice = spot - strike*exp(-rate*time) within
\* 0.01, with zero volatility as well as in the general regime.
PutCallParity ==
    \A op \in Ops :
        (results[op]["Call"] # None /\ results[op]["Put"] # None /\ T_ > 0) =>
            /\ results[op]["Call"].ret.price # NaN
            /\ results[op]["Put"].ret.price # NaN
            /\ Abs(results[op]["Call"].ret.price - results[op]["Put"].ret.price
                   - (S_ - Mul(K_, Discount))) <= ParityTolerance

\* C4: the price returned by price and priceWithGreeks is never negative.
PriceNonNegative == \A ot \in Held : Ret(ot).price # NaN /\ Ret(ot).price >= 0

\* C5: Option is built only with strike > 0 and timeToExpiration >= 0 and
\* MarketData only with spot > 0 and volatility >= 0; any other input makes the
\* constructor throw invalid_argument, leaving no object and no result; nothing
\* else is rejected (time == 0, volatility == 0 and any rate are accepted).
InvalidInputsRejected ==
    /\ option # None => (option.strike > 0 /\ option.timeToExpiration >= 0)
    /\ marketData # None => (marketData.spot > 0 /\ marketData.volatility >= 0)
    /\ Held # {} => (option # None /\ marketData # None)
    /\ thrown # None =>
         /\ thrown.what = "invalid_argument"
         /\ option = None /\ marketData = None /\ Held = {}
         /\ thrown.from = "Option" =>
              (thrown.given.strike <= 0 \/ thrown.given.timeToExpiration < 0)
         /\ thrown.from = "MarketData" =>
              (thrown.given.spot <= 0 \/ thrown.given.volatility < 0)

\* a zero strike was rejected
InvalidInputsWitness ==
    /\ thrown # None
    /\ thrown.from = "Option"
    /\ thrown.given.strike = 0
    /\ thrown.given.timeToExpiration >= 0

\* C6: priceWithGreeks at expiration: delta is 1 for a call iff spot > strike,
\* -1 for a put iff spot < strike, otherwise 0 (at the money included); gamma,
\* vega, theta and rho are 0.
GreeksAtExpiration ==
    \A type \in OptionTypes :
        (results["priceWithGreeks"][type] # None /\ T_ = 0) =>
            LET g == results["priceWithGreeks"][type].ret
            IN  /\ g.delta = IF type = "Call"
                             THEN (IF S_ > K_ THEN ONE ELSE 0)
                             ELSE (IF S_ < K_ THEN -ONE ELSE 0)
                /\ g.gamma = 0 /\ g.vega = 0 /\ g.theta = 0 /\ g.rho = 0

\* at the money at expiration: both deltas are 0
GreeksAtExpirationWitness ==
    /\ results["priceWithGreeks"]["Call"] # None
    /\ results["priceWithGreeks"]["Put"] # None
    /\ T_ = 0
    /\ S_ = K_
    /\ results["priceWithGreeks"]["Call"].ret.delta = 0
    /\ results["priceWithGreeks"]["Put"].ret.delta = 0

\* C7: priceWithGreeks with time > 0 and zero volatility: delta is 1 for a call
\* iff spot > strike*discount, -1 for a put iff spot < strike*discount, otherwise
\* 0; gamma, vega, theta and rho are 0; delta is non-zero exactly when the price
\* is strictly positive.
GreeksZeroVolatility ==
    \A type \in OptionTypes :
        (results["priceWithGreeks"][type] # None /\ T_ > 0 /\ sigma_ = 0) =>
            LET g == results["priceWithGreeks"][type].ret
            IN  /\ g.delta = IF type = "Call"
                             THEN (IF S_ > Mul(K_, Discount) THEN ONE ELSE 0)
                             ELSE (IF S_ < Mul(K_, Discount) THEN -ONE ELSE 0)
                /\ g.gamma = 0 /\ g.vega = 0 /\ g.theta = 0 /\ g.rho = 0
                /\ (g.delta # 0) <=> (g.price > 0)

\* a call below its strike and above its discounted strike has delta 1
GreeksZeroVolatilityWitness ==
    /\ results["priceWithGreeks"]["Call"] # None
    /\ T_ > 0
    /\ sigma_ = 0
    /\ S_ < K_
    /\ results["priceWithGreeks"]["Call"].ret.delta = ONE
    /\ results["priceWithGreeks"]["Call"].ret.price > 0

HelpFlags == {"--help", "-h"}

\* C8 as stated: the tool exits 0 on success and whenever --help is given, and
\* exits 1 on any parse or validation error, then with the error message
\* followed by the usage text on the error stream.
ExitCodeHelpAlwaysZero ==
    pc = "exit" =>
        /\ exitCode = IF thrown = None THEN Some(0) ELSE Some(1)
        /\ (\E k \in 1..Len(argv) : argv[k] \in HelpFlags) => exitCode = Some(0)
        /\ exitCode = Some(1) => stderr = <<[error |-> thrown], "usage">>

\* argv[j..n] is a run of flags each followed by a value it accepts
RECURSIVE Accepted(_, _)
Accepted(j, n) ==
    \/ j > n
    \/ /\ j + 1 <= n
       /\ \/ argv[j] = "--model"
          \/ argv[j] = "--type" /\ argv[j + 1] \in {"call", "put"}
          \/ argv[j] \in NumericFlags /\ stod(argv[j + 1]) # None
       /\ Accepted(j + 2, n)

\* some --help or -h stands where a flag is expected, after nothing but accepted flags
HelpReached == \E k \in 1..Len(argv) : argv[k] \in HelpFlags /\ Accepted(1, k - 1)

\* C8 amended: the tool exits 0 on success, which includes every run in which
\* parseArguments reaches --help or -h (as a flag, not as a flag's value) before
\* rejecting an argument; it exits 1 on any parse or validation error, then with
\* the error message followed by the usage text on the error stream.
ExitCodes ==
    pc = "exit" =>
        /\ exitCode = IF thrown = None THEN Some(0) ELSE Some(1)
        /\ args.help => (exitCode = Some(0) /\ stderr = <<"usage">> /\ stdout = <<>>)
        /\ args.help <=> HelpReached
        /\ (exitCode = Some(0) /\ ~args.help) => (Len(stdout) = 1 /\ stderr = <<>>)
        /\ exitCode = Some(1) => (stderr = <<[error |-> thrown], "usage">> /\ stdout = <<>>)

\* --help after accepted arguments: exit code 0 with the usage text
ExitCodesWitness ==
    /\ pc = "exit"
    /\ Len(argv) = 3
    /\ argv[3] = "--help"
    /\ argv[1] = "--rate"
    /\ args.help
    /\ exitCode = Some(0)

\* C9: main calls the engine and writes the report only after parsing has
\* finished without --help, validateArguments has accepted the arguments and both
\* constructors have built their objects from them; a run that exits 1 never
\* called the engine and wrote nothing to standard output; a run that exits 0
\* without --help priced the request and wrote one report.
PricedOrRejected ==
    /\ invoked =>
         /\ i > Len(argv) /\ ~args.help /\ thrown = None
         /\ args.model = "black_scholes"
         /\ args.spot > 0 /\ args.strike > 0 /\ args.vol >= 0 /\ args.maturity >= 0
         /\ option = Option(args.optionType, args.strike, args.maturity)
         /\ marketData = MarketData(args.spot, args.rate, args.vol)
         /\ results["price"][args.optionType] # None
    /\ stdout # <<>> => (invoked /\ pc = "exit" /\ exitCode = Some(0))
    /\ exitCode = Some(1) => (~invoked /\ stdout = <<>> /\ Held = {})
    /\ (pc = "exit" /\ exitCode = Some(0) /\ ~args.help) =>
         (invoked /\ stdout = <<[report |-> args,
                                 price |-> results["price"][args.optionType].ret.price]>>)

\* a request priced and reported
PricedOrRejectedWitness ==
    /\ pc = "exit"
    /\ invoked
    /\ exitCode = Some(0)
    /\ Len(stdout) = 1
    /\ args.optionType = "Put"
    /\ stdout[1].price > 0

\* sum of v^(2k+1) / (1*3*...*(2k+1)), term by term until the terms vanish
RECURSIVE CdfSeries(_, _, _, _)
CdfSeries(v2, k, term, acc) ==
    IF term = 0 THEN acc
    ELSE LET t == Quot(Mul(term, v2), 2 * k + 1)
         IN  CdfSeries(v2, k + 1, t, acc + t)

\* the standard normal distribution function, 1/2 + phi(v) (v + v^3/3 + v^5/15 + ...)
StandardNormalCDF(v) ==
    LET ax == Abs(v)
        phi == Mul(inv_sqrt_2pi, Exp(-Mul(HALF, Mul(ax, ax))))
    IN  HALF + Sgn(v) * Mul(phi, CdfSeries(Mul(ax, ax), 1, ax, ax))

\* the series above is good to 2e-4 on the grid; the claimed 7.5e-8 is finer than
\* the six digits carried, so the claim is read with this much slack
CdfTolerance == Fx(1, 1000)

\* C10: normalCDF(x) is the standard normal distribution function to within the
\* stated accuracy (N(0) = 0.5, N(1) about 0.8413, N(-1) about 0.1587).
NormalCdfAccurate ==
    cdfVal # None => Abs(cdfVal.some - StandardNormalCDF(cdfArg)) <= CdfTolerance

Calls(ot) == results[ot[1]][ot[2]].calls
Called(ot, fn) == \E c \in Calls(ot) : c.fn = fn

\* no helper invoked by a public operation took its degenerate-input branch
NoGuardTaken == \A ot \in Held : \A c \in Calls(ot) : ~c.guard

\* C11: the degenerate-input guards of calculateD1, calculateGamma, calculateVega,
\* calculateTheta and calculateRho are never taken by a call from price or
\* priceWithGreeks (the helpers get spot, strike, time, volatility > 0 only), and
\* no helper divides by zero or takes the logarithm of a non-positive number.
GuardsUnreachable ==
    /\ NoGuardTaken
    /\ \A ot \in Held :
          /\ Called(ot, "calculateD1") =>
                /\ S_ > 0 /\ K_ > 0 /\ T_ > 0 /\ sigma_ > 0
                /\ calculateD1LogArgument(S_, K_) > 0
                /\ calculateD1Denominator(sigma_, T_) # 0
          /\ Called(ot, "calculateGamma") => Mul(Mul(S_, sigma_), Sqrt(T_)) # 0
          /\ Called(ot, "calculateTheta") => 2 * Sqrt(T_) # 0

\* C12: priceWithGreeks returns the price that price returns for the same contract
\* and market, taking the same regime (closed form or d1/d2 formula), and a result
\* of price has all five sensitivities at 0.0.  (A NaN price is the same NaN in both.)
SamePriceBothOperations ==
    \A type \in OptionTypes :
        /\ results["price"][type] # None =>
              /\ ~hasGreeks(results["price"][type].ret)
              /\ (results["price"][type].calls = {}) <=> (T_ = 0 \/ sigma_ = 0)
        /\ results["priceWithGreeks"][type] # None =>
              (results["priceWithGreeks"][type].calls = {}) <=> (T_ = 0 \/ sigma_ = 0)
        /\ (results["price"][type] # None /\ results["priceWithGreeks"][type] # None) =>
              /\ results["priceWithGreeks"][type].ret.price = results["price"][type].ret.price
              /\ results["price"][type].calls \subseteq results["priceWithGreeks"][type].calls

\* a put priced both ways by the general formula: the same positive price, the
\* sensitivities filled in by priceWithGreeks only
SamePriceWitness ==
    /\ results["price"]["Put"] # None
    /\ results["priceWithGreeks"]["Put"] # None
    /\ T_ > 0
    /\ sigma_ > 0
    /\ results["price"]["Put"].ret.price > ONE
    /\ results["priceWithGreeks"]["Put"].ret.price = results["price"]["Put"].ret.price
    /\ results["priceWithGreeks"]["Put"].ret.delta < 0
    /\ results["priceWithGreeks"]["Put"].ret.vega > 0
    /\ results["price"]["Put"].ret.delta = 0

\* strictly in the money, as regime 1 (undiscounted) and regime 2 (discounted) decide it
InTheMoney(type) ==
    LET strike == IF T_ = 0 THEN K_ ELSE Mul(K_, Discount)
    IN  IF type = "Call" THEN S_ > strike ELSE S_ < strike

\* C13 as stated: hasGreeks() of a priceWithGreeks result is false exactly in the
\* at-expiration and zero-volatility regimes when the option is not strictly in
\* the money; in the general regime it is always true, vega being strictly positive.
HasGreeksAlwaysInGeneralRegime ==
    \A type \in OptionTypes :
        results["priceWithGreeks"][type] # None =>
            LET g == results["priceWithGreeks"][type].ret
            IN  IF T_ = 0 \/ sigma_ = 0
                THEN hasGreeks(g) <=> InTheMoney(type)
                ELSE hasGreeks(g) /\ g.vega # NaN /\ g.vega > 0

HasGreeksD1Bound == Fx(3, 1)

\* C13 amended: in the at-expiration and zero-volatility regimes hasGreeks() is
\* false exactly when the option is not strictly in the money; in the general
\* regime it is true whenever |d1| <= 3 (delta is non-zero there), and it is not
\* always true: far from the money all five sensitivities can round to 0.0.
HasGreeksByRegime ==
    \A type \in OptionTypes :
        results["priceWithGreeks"][type] # None =>
            LET g == results["priceWithGreeks"][type].ret
                d1 == calculateD1(S_, K_, r_, sigma_, T_)
            IN  IF T_ = 0 \/ sigma_ = 0
                THEN hasGreeks(g) <=> InTheMoney(type)
                ELSE (d1 # NaN /\ Abs(d1) <= HasGreeksD1Bound) =>
                        hasGreeks(g) /\ g.delta # 0

\* with zero volatility the call is in the money and has Greeks, the put has none
HasGreeksWitness ==
    /\ results["priceWithGreeks"]["Call"] # None
    /\ results["priceWithGreeks"]["Put"] # None
    /\ T_ > 0
    /\ sigma_ = 0
    /\ r_ # 0
    /\ hasGreeks(results["priceWithGreeks"]["Call"].ret)
    /\ ~hasGreeks(results["priceWithGreeks"]["Put"].ret)

\* the texts that are a number from the first character to the last
WellFormedNumbers == {"100", "105", "0", "0.2", "-0.2", "0.5", "-1", "0.05"}

\* the first decisive argument from argv[j] on: a --help or -h, or an argument
\* to reject (an unknown flag, a flag whose value is missing, a --type that is
\* neither call nor put, a number that is malformed); Len(argv) + 1 if there is none
RECURSIVE Decisive(_)
Decisive(j) ==
    IF j > Len(argv) THEN j
    ELSE IF argv[j] \in HelpFlags THEN j
    ELSE IF /\ j + 1 <= Len(argv)
            /\ \/ argv[j] = "--model"
               \/ argv[j] = "--type" /\ argv[j + 1] \in {"call", "put"}
               \/ argv[j] \in NumericFlags /\ argv[j + 1] \in WellFormedNumbers
    THEN Decisive(j + 2)
    ELSE j

\* where flag was given last before argv[n], 0 if nowhere
LastGiven(flag, n) ==
    LET at == {j \in 1..(n - 1) : j % 2 = 1 /\ argv[j] = flag}
    IN  IF at = {} THEN 0 ELSE CHOOSE j \in at : \A k \in at : k <= j

\* the arguments before argv[n] as CliArguments: each member from the last
\* occurrence of its flag, its default where the flag was not given
LastWins(n) ==
    [model |-> IF LastGiven("--model", n) = 0 THEN CliArguments.model
               ELSE argv[LastGiven("--model", n) + 1],
     optionType |-> IF LastGiven("--type", n) = 0 THEN CliArguments.optionType
                    ELSE IF argv[LastGiven("--type", n) + 1] = "call" THEN "Call" ELSE "Put",
     spot |-> IF LastGiven("--spot", n) = 0 THEN 0
              ELSE stod(argv[LastGiven("--spot", n) + 1]).some,
     strike |-> IF LastGiven("--strike", n) = 0 THEN 0
                ELSE stod(argv[LastGiven("--strike", n) + 1]).some,
     rate |-> IF LastGiven("--rate", n) = 0 THEN 0
              ELSE stod(argv[LastGiven("--rate", n) + 1]).some,
     vol |-> IF LastGiven("--vol", n) = 0 THEN 0
             ELSE stod(argv[LastGiven("--vol", n) + 1]).some,
     maturity |-> IF LastGiven("--maturity", n) = 0 THEN 0
                  ELSE stod(argv[LastGiven("--maturity", n) + 1]).some,
     help |-> n <= Len(argv)]

ParseErrors == {"parseArguments", "parseDouble", "parseOptionType"}

\* C14: parseArguments reads argv left to right and the first decisive argument
\* fixes the outcome: an unknown flag, a value-taking flag in last position, an
\* invalid --type or malformed numeric text met before any --help/-h is rejected
\* there (exit code 1), even if --help follows; a --help/-h met first gives the
\* usage text and exit code 0, the later arguments unexamined; and of a repeated
\* flag the last value wins.
LeftToRightFirstDecisive ==
    pc = "exit" =>
        LET d == Decisive(1)
        IN  IF d > Len(argv)
            THEN /\ args = LastWins(d)
                 /\ i = d
                 /\ thrown # None => thrown.from \notin ParseErrors
            ELSE IF argv[d] \in HelpFlags
            THEN /\ args = LastWins(d)
                 /\ i = d
                 /\ exitCode = Some(0)
                 /\ stderr = <<"usage">>
            ELSE /\ i = d
                 /\ exitCode = Some(1)
                 /\ thrown # None
                 /\ thrown.from \in ParseErrors
====
